---- MODULE Spec2Model ----
(***************************************************************************)
(* Model of main.py: the image resolver (get_latest_image), the template   *)
(* updater (launch_template_versions), the refresh trigger                 *)
(* (trigger_refresh) and the orchestration in main.                        *)
(*                                                                         *)
(* The provider (EC2 / Auto Scaling) is the environment.  Its launch       *)
(* template is global state; the answers of describe_images and            *)
(* describe_auto_scaling_groups are drawn when the call is made.  Every    *)
(* provider call may raise ClientError instead of returning.               *)
(*                                                                         *)
(* The logging calls do not change control flow: a malformed format string *)
(* or argument (main.py lines 70 and 103) is reported by the logging       *)
(* handler on stderr and is not raised into the caller.                    *)
(***************************************************************************)
EXTENDS Naturals, Sequences, FiniteSets

\* ---------------------------------------------------------------- bounds
MaxInitVersions == 12    \* versions of the template before the first run
MaxImages == 3           \* images in one describe_images answer
MaxDate == 2             \* creation timestamps are 1..MaxDate
MaxGroups == 2           \* groups in one describe_auto_scaling_groups answer
MaxRuns == 2             \* invocations of the program, one after the other
MaxDeleteLog == 3        \* delete calls remembered in the call log

\* ------------------------------------------------------ program constants
Retain == 10             \* while len(versions) > 10

LtId == "lt-nat"
ImageIds == {"ami-a", "ami-b", "ami-c"}
GroupNames == {"asg-1", "asg-2", "asg-3"}
Procs == {1, 2}
SeqProcs == {1}

VARIABLES
    ltVersions,      \* provider: version number -> embedded image id
    ltDefault,       \* provider: the default version number
    ltNextVersion,   \* provider: the number the next created version gets
    runs,            \* invocations started so far
    pc,              \* per invocation: position in main.py
    err,             \* per invocation: the exception that ended it
    images,          \* get_latest_image: images['Images']
    image_id,        \* main: image_id
    template,        \* launch_template_versions: template['LaunchTemplateVersions']
    response,        \* launch_template_versions: response[...]['VersionNumber']
    output,          \* launch_template_versions: <<>> is None, <<r>> the dict
    scaling_groups,  \* trigger_refresh: scaling_groups['AutoScalingGroups']
    gi,              \* trigger_refresh: position of the for loop
    log,             \* per invocation: the provider calls issued, in order
    prev             \* history: the image the preceding run of this process
                     \* rotated to, "" when it returned no Rotation Result

vars == <<ltVersions, ltDefault, ltNextVersion, runs, pc, err, images, image_id,
          template, response, output, scaling_groups, gi, log, prev>>

provider == <<ltVersions, ltDefault, ltNextVersion>>

None == <<>>

\* ------------------------------------------------------------- helpers
Max(S) == CHOOSE m \in S : \A x \in S : x <= m

\* the sequences of length <= n over S
RECURSIVE DistinctSeqs(_, _)
DistinctSeqs(S, n) ==
    IF n = 0 THEN {<<>>}
    ELSE LET shorter == DistinctSeqs(S, n - 1)
         IN shorter \cup
            {Append(s, x) : s \in {t \in shorter : Len(t) = n - 1}, x \in S}

ImageRecords == [ImageId : ImageIds, CreationDate : 1..MaxDate]

\* the answers describe_images can give: image ids are unique
ImageListings ==
    {l \in DistinctSeqs(ImageRecords, MaxImages) :
        \A i, j \in 1..Len(l) : i # j => l[i].ImageId # l[j].ImageId}

\* the answers describe_auto_scaling_groups can give: group names are unique
GroupListings ==
    {l \in DistinctSeqs(GroupNames, MaxGroups) :
        \A i, j \in 1..Len(l) : i # j => l[i] # l[j]}

\* ------------------------------------------------------------ provider
\* describe_launch_template_versions(LaunchTemplateName=...): every version
\* of the template, newest first, each with its DefaultVersion flag
VersionListing(vs) ==
    [i \in 1..Cardinality(DOMAIN vs) |->
        LET v == CHOOSE w \in DOMAIN vs :
                    Cardinality({u \in DOMAIN vs : u > w}) = i - 1
        IN [LaunchTemplateId |-> LtId, VersionNumber |-> v, ImageId |-> vs[v],
            DefaultVersion |-> (v = ltDefault)]]

DescribeLaunchTemplateVersions == VersionListing(ltVersions)

\* one entry of the call log
Call(op, name, version, image, ok) ==
    [op |-> op, LaunchTemplateId |-> LtId, Name |-> name, Version |-> version,
     ImageId |-> image, Strategy |-> IF op = "start_instance_refresh" THEN "Rolling" ELSE "",
     ok |-> ok]

MutatingOps == {"create_launch_template_version", "modify_launch_template",
                "delete_launch_template_versions", "start_instance_refresh"}

Calls(p, op) == SelectSeq(log[p], LAMBDA c : c.op = op)
Mutations(p) == SelectSeq(log[p], LAMBDA c : c.op \in MutatingOps)

\* the delete calls are remembered up to MaxDeleteLog of them
Logged(p, c) ==
    IF c.op = "delete_launch_template_versions"
       /\ Len(Calls(p, "delete_launch_template_versions")) >= MaxDeleteLog
    THEN log[p]
    ELSE Append(log[p], c)

\* ------------------------------------------------------ get_latest_image
\* sorted(images['Images'], key=CreationDate, reverse=True): a stable sort,
\* so images of equal date keep their listing order
\* mutant: an unstable order, an image goes behind the images of equal date
RECURSIVE InsertDesc_BehindEqual(_, _)
InsertDesc_BehindEqual(x, t) ==
    IF t = <<>> THEN <<x>>
    ELSE IF Head(t).CreationDate >= x.CreationDate
         THEN <<Head(t)>> \o InsertDesc_BehindEqual(x, Tail(t))
         ELSE <<x>> \o t

RECURSIVE InsertDesc(_, _)
InsertDesc(x, t) ==
    IF t = <<>> THEN <<x>>
    ELSE IF Head(t).CreationDate > x.CreationDate
         THEN <<Head(t)>> \o InsertDesc(x, Tail(t))
         ELSE <<x>> \o t

RECURSIVE sorted_ami(_)
sorted_ami(l) ==
    IF l = <<>> THEN <<>> ELSE InsertDesc(Head(l), sorted_ami(Tail(l)))

\* mutant: the last element of the sorted list instead of element 0
latest_ami_LastElement(l) == sorted_ami(l)[Len(l)].ImageId

latest_ami(l) == sorted_ami(l)[1].ImageId

\* ---------------------------------------------------------------- Init
\* The template before the first run: versions 1..n, any of them the default
\* (the provider keeps the default where it is when a version is added), the
\* older versions on one image and the newest on any image.  Image ids are
\* only ever compared for equality, so the older image is fixed.
InitTemplates ==
    {[vs |-> [v \in 1..n |-> IF v = n THEN new ELSE "ami-a"], def |-> d] :
        n \in 1..MaxInitVersions, d \in 1..MaxInitVersions, new \in ImageIds}

Init ==
    /\ \E t \in InitTemplates :
          /\ t.def \in DOMAIN t.vs
          /\ ltVersions = t.vs
          /\ ltDefault = t.def
          /\ ltNextVersion = Max(DOMAIN t.vs) + 1
    /\ runs = 0
    /\ pc = [p \in Procs |-> "idle"]
    /\ err = [p \in Procs |-> "none"]
    /\ images = [p \in Procs |-> <<>>]
    /\ image_id = [p \in Procs |-> ""]
    /\ template = [p \in Procs |-> <<>>]
    /\ response = [p \in Procs |-> 0]
    /\ output = [p \in Procs |-> None]
    /\ scaling_groups = [p \in Procs |-> <<>>]
    /\ gi = [p \in Procs |-> 0]
    /\ log = [p \in Procs |-> <<>>]
    /\ prev = [p \in Procs |-> ""]

\* ------------------------------------------------------------- actions
Running(p) == pc[p] \notin {"idle", "done", "failed"}

\* the script is started (python main.py): a fresh process, no state kept
Invoke(p) ==
    /\ ~Running(p)
    /\ runs < MaxRuns
    /\ runs' = runs + 1
    /\ pc' = [pc EXCEPT ![p] = "get_latest_image"]
    /\ err' = [err EXCEPT ![p] = "none"]
    /\ images' = [images EXCEPT ![p] = <<>>]
    /\ image_id' = [image_id EXCEPT ![p] = ""]
    /\ template' = [template EXCEPT ![p] = <<>>]
    /\ response' = [response EXCEPT ![p] = 0]
    /\ output' = [output EXCEPT ![p] = None]
    /\ scaling_groups' = [scaling_groups EXCEPT ![p] = <<>>]
    /\ gi' = [gi EXCEPT ![p] = 0]
    /\ log' = [log EXCEPT ![p] = <<>>]
    /\ prev' = [prev EXCEPT ![p] =
                  IF pc[p] = "done" /\ output[p] # None THEN image_id[p] ELSE ""]
    /\ UNCHANGED provider

\* mutant: an empty answer is tolerated and the run goes on without an image
GetLatestImage_EmptyTolerated(p) ==
    /\ pc[p] = "get_latest_image"
    /\ \E l \in ImageListings :
          /\ images' = [images EXCEPT ![p] = l]
          /\ image_id' = [image_id EXCEPT ![p] = IF l = <<>> THEN "" ELSE latest_ami(l)]
    /\ pc' = [pc EXCEPT ![p] = "describe_launch_template_versions"]
    /\ log' = [log EXCEPT ![p] = Logged(p, Call("describe_images", "", 0, "", TRUE))]
    /\ UNCHANGED <<provider, runs, prev, err, template, response, output, scaling_groups, gi>>

\* get_latest_image: describe_images, sort, take element 0
GetLatestImage(p) ==
    /\ pc[p] = "get_latest_image"
    /\ \E l \in ImageListings :
          /\ images' = [images EXCEPT ![p] = l]
          /\ IF l = <<>>
             THEN /\ pc' = [pc EXCEPT ![p] = "failed"]
                  /\ err' = [err EXCEPT ![p] = "IndexError"]
                  /\ UNCHANGED image_id
             ELSE /\ pc' = [pc EXCEPT ![p] = "describe_launch_template_versions"]
                  /\ image_id' = [image_id EXCEPT ![p] = latest_ami(l)]
                  /\ UNCHANGED err
    /\ log' = [log EXCEPT ![p] = Logged(p, Call("describe_images", "", 0, "", TRUE))]
    /\ UNCHANGED <<provider, runs, prev, template, response, output, scaling_groups, gi>>

\* launch_template_versions, lines 35-45 and 75-77: read the template and
\* compare the image of element 0 of the listing with image_id
ReadTemplate(p) ==
    /\ pc[p] = "describe_launch_template_versions"
    /\ LET listing == DescribeLaunchTemplateVersions
           template_image == listing[1].ImageId
       IN /\ template' = [template EXCEPT ![p] = listing]
          /\ IF template_image # image_id[p]
             THEN pc' = [pc EXCEPT ![p] = "create_launch_template_version"]
             ELSE pc' = [pc EXCEPT ![p] = "returned"]
    /\ images' = [images EXCEPT ![p] = <<>>]
    /\ log' = [log EXCEPT ![p] =
                 Logged(p, Call("describe_launch_template_versions", "", 0, "", TRUE))]
    /\ UNCHANGED <<provider, runs, prev, err, image_id, response, output, scaling_groups, gi>>

template_id(p) == template[p][1].LaunchTemplateId
template_version(p) == template[p][1].VersionNumber
template_image(p) == template[p][1].ImageId

\* mutant: the create is guarded by a second look at the template, and is
\* given up when the newest version already carries the image
CreateVersion_LooksAgain(p) ==
    /\ pc[p] = "create_launch_template_version"
    /\ template_version(p) \in DOMAIN ltVersions
    /\ IF ltVersions[Max(DOMAIN ltVersions)] = image_id[p]
       THEN /\ pc' = [pc EXCEPT ![p] = "returned"]
            /\ UNCHANGED <<ltVersions, ltNextVersion, response, log>>
       ELSE /\ ltVersions' = [v \in DOMAIN ltVersions \cup {ltNextVersion} |->
                                IF v = ltNextVersion THEN image_id[p] ELSE ltVersions[v]]
            /\ ltNextVersion' = ltNextVersion + 1
            /\ response' = [response EXCEPT ![p] = ltNextVersion]
            /\ pc' = [pc EXCEPT ![p] = "modify_launch_template"]
            /\ log' = [log EXCEPT ![p] =
                         Logged(p, Call("create_launch_template_version", "",
                                        ltNextVersion, image_id[p], TRUE))]
    /\ UNCHANGED <<ltDefault, runs, prev, err, images, image_id, template, output,
                   scaling_groups, gi>>

\* mutant: the new version is a plain copy of SourceVersion, the image override is lost
CreateVersion_KeepsSourceImage(p) ==
    /\ pc[p] = "create_launch_template_version"
    /\ template_version(p) \in DOMAIN ltVersions
    /\ ltVersions' = [v \in DOMAIN ltVersions \cup {ltNextVersion} |->
                        IF v = ltNextVersion THEN ltVersions[template_version(p)]
                        ELSE ltVersions[v]]
    /\ ltNextVersion' = ltNextVersion + 1
    /\ response' = [response EXCEPT ![p] = ltNextVersion]
    /\ pc' = [pc EXCEPT ![p] = "modify_launch_template"]
    /\ log' = [log EXCEPT ![p] =
                 Logged(p, Call("create_launch_template_version", "", ltNextVersion,
                                image_id[p], TRUE))]
    /\ UNCHANGED <<ltDefault, runs, prev, err, images, image_id, template, output,
                   scaling_groups, gi>>

\* mutant: the promotion is left out, pruning follows the create
CreateVersion_SkipsPromotion(p) ==
    /\ pc[p] = "create_launch_template_version"
    /\ template_version(p) \in DOMAIN ltVersions
    /\ ltVersions' = [v \in DOMAIN ltVersions \cup {ltNextVersion} |->
                        IF v = ltNextVersion THEN image_id[p] ELSE ltVersions[v]]
    /\ ltNextVersion' = ltNextVersion + 1
    /\ response' = [response EXCEPT ![p] = ltNextVersion]
    /\ pc' = [pc EXCEPT ![p] = "prune"]
    /\ log' = [log EXCEPT ![p] =
                 Logged(p, Call("create_launch_template_version", "", ltNextVersion,
                                image_id[p], TRUE))]
    /\ UNCHANGED <<ltDefault, runs, prev, err, images, image_id, template, output,
                   scaling_groups, gi>>

\* lines 47-53: a new version from SourceVersion with the new image
CreateVersion(p) ==
    /\ pc[p] = "create_launch_template_version"
    /\ template_version(p) \in DOMAIN ltVersions
    /\ ltVersions' = [v \in DOMAIN ltVersions \cup {ltNextVersion} |->
                        IF v = ltNextVersion THEN image_id[p] ELSE ltVersions[v]]
    /\ ltNextVersion' = ltNextVersion + 1
    /\ response' = [response EXCEPT ![p] = ltNextVersion]
    /\ pc' = [pc EXCEPT ![p] = "modify_launch_template"]
    /\ log' = [log EXCEPT ![p] =
                 Logged(p, Call("create_launch_template_version", "", ltNextVersion,
                                image_id[p], TRUE))]
    /\ UNCHANGED <<ltDefault, runs, prev, err, images, image_id, template, output,
                   scaling_groups, gi>>

\* lines 58-63: the new version becomes the default
default_version(p) == response[p]

SetDefault(p) ==
    /\ pc[p] = "modify_launch_template"
    /\ default_version(p) \in DOMAIN ltVersions
    /\ ltDefault' = default_version(p)
    /\ pc' = [pc EXCEPT ![p] = "prune"]
    /\ log' = [log EXCEPT ![p] =
                 Logged(p, Call("modify_launch_template", "", default_version(p), "", TRUE))]
    /\ UNCHANGED <<ltVersions, ltNextVersion, runs, prev, err, images, image_id, template,
                   response, output, scaling_groups, gi>>

\* line 68: the list pruning looks at is the listing read before the create
versions(p) == template[p]

\* line 69: while len(versions) > 10
PruneMore(p) == Len(versions(p)) > Retain

\* mutant: the delete names the version the create call answered with
PruneTarget_Created(p) == response[p]

\* lines 71-74: Versions=[versions[-1]['VersionNumber']]
PruneTarget(p) == versions(p)[Len(versions(p))].VersionNumber

\* lines 69 and 79-84: the loop test; on exit the Rotation Result is built
PruneTest(p) ==
    /\ pc[p] = "prune"
    /\ IF PruneMore(p)
       THEN /\ pc' = [pc EXCEPT ![p] = "delete_launch_template_versions"]
            /\ UNCHANGED output
       ELSE /\ pc' = [pc EXCEPT ![p] = "returned"]
            /\ output' = [output EXCEPT ![p] =
                 <<[current_image_id |-> template_image(p),
                    template_id |-> template_id(p),
                    template_version |-> template_version(p),
                    new_template_version |-> response[p]]>>]
    /\ UNCHANGED <<provider, runs, prev, err, images, image_id, template, response,
                   scaling_groups, gi, log>>

\* lines 71-74: one delete call; nothing in the loop body changes versions.
\* The provider removes the version when it exists and is not the default,
\* and otherwise answers without removing anything.
DeleteVersion(p) ==
    /\ pc[p] = "delete_launch_template_versions"
    /\ LET v == PruneTarget(p)
       IN /\ IF v \in DOMAIN ltVersions /\ v # ltDefault
             THEN ltVersions' = [w \in DOMAIN ltVersions \ {v} |-> ltVersions[w]]
             ELSE UNCHANGED ltVersions
          /\ log' = [log EXCEPT ![p] =
                       Logged(p, Call("delete_launch_template_versions", "", v, "", TRUE))]
    /\ pc' = [pc EXCEPT ![p] = "prune"]
    /\ UNCHANGED <<ltDefault, ltNextVersion, runs, prev, err, images, image_id, template,
                   response, output, scaling_groups, gi>>

\* mutant: trigger_refresh is called whatever launch_template_versions returned
MainAfterUpdate_Unconditional(p) ==
    /\ pc[p] = "returned"
    /\ pc' = [pc EXCEPT ![p] = "describe_auto_scaling_groups"]
    /\ UNCHANGED <<provider, runs, prev, err, images, image_id, template, response, output,
                   scaling_groups, gi, log>>

\* main, lines 146-150: trigger_refresh only when a Rotation Result came back
MainAfterUpdate(p) ==
    /\ pc[p] = "returned"
    /\ IF output[p] # None
       THEN pc' = [pc EXCEPT ![p] = "describe_auto_scaling_groups"]
       ELSE pc' = [pc EXCEPT ![p] = "done"]
    /\ UNCHANGED <<provider, runs, prev, err, images, image_id, template, response, output,
                   scaling_groups, gi, log>>

\* trigger_refresh, lines 89-100: the groups carrying the three tags
ListGroups(p) ==
    /\ pc[p] = "describe_auto_scaling_groups"
    /\ \E l \in GroupListings : scaling_groups' = [scaling_groups EXCEPT ![p] = l]
    /\ gi' = [gi EXCEPT ![p] = 1]
    /\ pc' = [pc EXCEPT ![p] = "start_instance_refresh"]
    /\ log' = [log EXCEPT ![p] =
                 Logged(p, Call("describe_auto_scaling_groups", "", 0, "", TRUE))]
    /\ UNCHANGED <<provider, runs, prev, err, images, image_id, template, response, output>>

\* mutant: the previous version number is taken from the Rotation Result
version_Previous(p) == output[p][1].template_version

\* line 100
version(p) == output[p][1].new_template_version

\* lines 101-114: one request for the group the loop is at
StartRefresh(p) ==
    /\ pc[p] = "start_instance_refresh"
    /\ gi[p] <= Len(scaling_groups[p])
    /\ log' = [log EXCEPT ![p] =
                 Logged(p, [Call("start_instance_refresh", scaling_groups[p][gi[p]],
                                 version(p), "", TRUE)
                            EXCEPT !.LaunchTemplateId = output[p][1].template_id])]
    /\ gi' = [gi EXCEPT ![p] = gi[p] + 1]
    /\ UNCHANGED <<provider, runs, prev, pc, err, images, image_id, template, response,
                   output, scaling_groups>>

\* line 101: the for loop is exhausted; trigger_refresh and main return
RefreshDone(p) ==
    /\ pc[p] = "start_instance_refresh"
    /\ gi[p] > Len(scaling_groups[p])
    /\ pc' = [pc EXCEPT ![p] = "done"]
    /\ UNCHANGED <<provider, runs, prev, err, images, image_id, template, response, output,
                   scaling_groups, gi, log>>

\* the places where a provider call is about to be made
CallSites == {"get_latest_image", "describe_launch_template_versions",
              "create_launch_template_version", "modify_launch_template",
              "delete_launch_template_versions", "describe_auto_scaling_groups",
              "start_instance_refresh"}

CallAt(p) ==
    IF pc[p] = "get_latest_image" THEN "describe_images" ELSE pc[p]

\* mutant: a failed promotion is compensated by deleting the version just created
ProviderFail_Compensates(p) ==
    /\ pc[p] \in CallSites
    /\ pc[p] = "start_instance_refresh" => gi[p] <= Len(scaling_groups[p])
    /\ pc' = [pc EXCEPT ![p] = "failed"]
    /\ err' = [err EXCEPT ![p] = "ClientError"]
    /\ log' = [log EXCEPT ![p] = Logged(p, Call(CallAt(p), "", 0, "", FALSE))]
    /\ images' = [images EXCEPT ![p] = <<>>]
    /\ IF pc[p] = "modify_launch_template"
       THEN ltVersions' = [w \in DOMAIN ltVersions \ {response[p]} |-> ltVersions[w]]
       ELSE UNCHANGED ltVersions
    /\ UNCHANGED <<ltDefault, ltNextVersion, runs, prev, image_id, template, response,
                   output, scaling_groups, gi>>

\* mutant: a failed refresh request is skipped and the loop goes on
ProviderFail_GroupIsolated(p) ==
    /\ pc[p] \in CallSites
    /\ pc[p] = "start_instance_refresh" => gi[p] <= Len(scaling_groups[p])
    /\ log' = [log EXCEPT ![p] = Logged(p, Call(CallAt(p), "", 0, "", FALSE))]
    /\ images' = [images EXCEPT ![p] = <<>>]
    /\ IF pc[p] = "start_instance_refresh"
       THEN /\ gi' = [gi EXCEPT ![p] = gi[p] + 1]
            /\ UNCHANGED <<pc, err>>
       ELSE /\ pc' = [pc EXCEPT ![p] = "failed"]
            /\ err' = [err EXCEPT ![p] = "ClientError"]
            /\ UNCHANGED gi
    /\ UNCHANGED <<provider, runs, prev, image_id, template, response, output,
                   scaling_groups>>

\* a provider call raises ClientError: re-raised at the call site (lines
\* 38-39, 54-55, 97-98, 115-116) or not caught at all, it ends the run
ProviderFail(p) ==
    /\ pc[p] \in CallSites
    /\ pc[p] = "start_instance_refresh" => gi[p] <= Len(scaling_groups[p])
    /\ pc' = [pc EXCEPT ![p] = "failed"]
    /\ err' = [err EXCEPT ![p] = "ClientError"]
    /\ log' = [log EXCEPT ![p] = Logged(p, Call(CallAt(p), "", 0, "", FALSE))]
    /\ images' = [images EXCEPT ![p] = <<>>]
    /\ UNCHANGED <<provider, runs, prev, image_id, template, response, output,
                   scaling_groups, gi>>

\* one step of the program text, the provider answering
Step(p) ==
    \/ GetLatestImage(p)
    \/ ReadTemplate(p)
    \/ CreateVersion(p)
    \/ SetDefault(p)
    \/ PruneTest(p)
    \/ DeleteVersion(p)
    \/ MainAfterUpdate(p)
    \/ ListGroups(p)
    \/ StartRefresh(p)
    \/ RefreshDone(p)

\* the script runs as one process at a time
Next ==
    \E p \in SeqProcs :
        \/ Invoke(p)
        \/ Step(p)
        \/ ProviderFail(p)

Spec == Init /\ [][Next]_vars

\* a started process keeps executing: each provider call returns or raises
FairSpec == Spec /\ \A p \in SeqProcs : WF_vars(Step(p))

\* Two invocations at the same time (two schedules firing, or a manual start
\* during a scheduled run): separate processes sharing only the provider, both
\* started, their provider calls interleaving in any order.  The template is
\* as earlier runs leave it, the newest version the default; it has one
\* version, or one more than the pruning loop tolerates.
InitConc ==
    /\ \E t \in InitTemplates :
          /\ DOMAIN t.vs \in {1..1, 1..(Retain + 1)}
          /\ t.def = Max(DOMAIN t.vs)
          /\ ltVersions = t.vs
          /\ ltDefault = t.def
          /\ ltNextVersion = Max(DOMAIN t.vs) + 1
    /\ runs = Cardinality(Procs)
    /\ pc = [p \in Procs |-> "get_latest_image"]
    /\ err = [p \in Procs |-> "none"]
    /\ images = [p \in Procs |-> <<>>]
    /\ image_id = [p \in Procs |-> ""]
    /\ template = [p \in Procs |-> <<>>]
    /\ response = [p \in Procs |-> 0]
    /\ output = [p \in Procs |-> None]
    /\ scaling_groups = [p \in Procs |-> <<>>]
    /\ gi = [p \in Procs |-> 0]
    /\ log = [p \in Procs |-> <<>>]
    /\ prev = [p \in Procs |-> ""]

NextConc ==
    \E p \in Procs :
        \/ Step(p)
        \/ ProviderFail(p)

SpecConc == InitConc /\ [][NextConc]_vars

\* ============================================================ claims
DefaultImage == ltVersions[ltDefault]
Retained == Cardinality(DOMAIN ltVersions)
OkCalls(p, op) == SelectSeq(log[p], LAMBDA c : c.op = op /\ c.ok)
HasRead(p) == template[p] # <<>>

\* C1: when the image of the template's default version equals the resolved
\* image, launch_template_versions issues no mutating call and returns no
\* Rotation Result, wherever the default version sits in the listing.  Stated
\* on the run that has read the template and issued no mutating call yet (the
\* template is then as it was read): it is not about to create a version and
\* holds no Rotation Result.
C1_NoUpdateWhenDefaultCurrent ==
    \A p \in Procs :
        (HasRead(p) /\ Mutations(p) = <<>> /\ DefaultImage = image_id[p])
            => /\ pc[p] # "create_launch_template_version"
               /\ output[p] = None

\* C2: when launch_template_versions returns a Rotation Result, exactly one
\* version was created, it is the default, and the template retains at most
\* 10 versions.
C2_OneCreatedPromotedAtMostTen ==
    \A p \in Procs :
        (pc[p] = "returned" /\ output[p] # None)
            => /\ Len(OkCalls(p, "create_launch_template_version")) = 1
               /\ ltDefault = output[p][1].new_template_version
               /\ Retained <= Retain

\* C3: the delete calls of one run target strictly ascending version numbers
\* (oldest first, no version twice), and a delete call is only about to be
\* issued while the template retains more than 10 versions.
C3_PruneOldestFirstDistinct ==
    \A p \in Procs :
        LET d == OkCalls(p, "delete_launch_template_versions")
        IN /\ \A i, j \in 1..Len(d) : i < j => d[i].Version < d[j].Version
           /\ pc[p] = "delete_launch_template_versions" => Retained > Retain

\* C4: with 11 versions listed before the update, pruning makes exactly two
\* delete calls, the two oldest versions are gone and exactly 10 remain.
\* Stated on the run that has made its second delete call.
C4_ElevenVersionsLeaveTen ==
    \A p \in Procs :
        LET d == OkCalls(p, "delete_launch_template_versions")
            n == Len(template[p])
        IN (n = Retain + 1 /\ Len(d) >= 2)
              => /\ Len(d) = 2
                 /\ Retained = Retain
                 /\ template[p][n].VersionNumber \notin DOMAIN ltVersions
                 /\ template[p][n - 1].VersionNumber \notin DOMAIN ltVersions

\* C5: every invocation terminates: a started run reaches its end, normally
\* or on an unhandled failure.
C5_EveryRunTerminates ==
    \A p \in Procs :
        (pc[p] = "get_latest_image") ~> (pc[p] \in {"done", "failed"})

\* C6: whenever launch_template_versions has returned normally for image_id,
\* the template's default version embeds image_id.
C6_DefaultEmbedsTargetOnReturn ==
    \A p \in Procs : pc[p] = "returned" => DefaultImage = image_id[p]

\* C7: a run that ends normally with a Rotation Result has issued exactly one
\* start_instance_refresh per listed group, in listing order, each with
\* strategy Rolling, the template's id and the number of the version this run
\* created; with no group listed it has issued none.
C7_OneRefreshPerGroup ==
    \A p \in Procs :
        (pc[p] = "done" /\ output[p] # None)
            => LET r == Calls(p, "start_instance_refresh")
                   g == scaling_groups[p]
                   created == OkCalls(p, "create_launch_template_version")
               IN /\ Len(Calls(p, "describe_auto_scaling_groups")) = 1
                  /\ Len(created) = 1
                  /\ Len(r) = Len(g)
                  /\ \A i \in 1..Len(r) :
                        /\ r[i].ok
                        /\ r[i].Name = g[i]
                        /\ r[i].Strategy = "Rolling"
                        /\ r[i].LaunchTemplateId = LtId
                        /\ r[i].Version = created[1].Version

C7_Witness ==
    /\ pc[1] = "done"
    /\ output[1] # None
    /\ Len(scaling_groups[1]) = 2
    /\ Len(Calls(1, "start_instance_refresh")) = 2

\* C8: while a run holds no Rotation Result it is not in trigger_refresh and
\* has issued neither describe_auto_scaling_groups nor start_instance_refresh;
\* in particular a run that ended after the updater returned None issued none.
C8_NoResultNoTrigger ==
    \A p \in Procs :
        output[p] = None
            => /\ pc[p] \notin {"describe_auto_scaling_groups", "start_instance_refresh"}
               /\ Calls(p, "describe_auto_scaling_groups") = <<>>
               /\ Calls(p, "start_instance_refresh") = <<>>

C8_Witness ==
    /\ pc[1] = "done"
    /\ HasRead(1)
    /\ output[1] = None

\* C9: for a non-empty answer of the registry, get_latest_image returns the id
\* of a listed image whose creation timestamp is the maximum of the answer; for
\* a one-element answer it returns that element's id.
C9_LatestHasMaxTimestamp ==
    \A p \in Procs :
        pc[p] = "describe_launch_template_versions"
            => LET l == images[p]
               IN /\ \E i \in 1..Len(l) :
                        /\ l[i].ImageId = image_id[p]
                        /\ \A j \in 1..Len(l) : l[j].CreationDate <= l[i].CreationDate
                  /\ Len(l) = 1 => image_id[p] = l[1].ImageId

C9_Witness ==
    /\ pc[1] = "describe_launch_template_versions"
    /\ Len(images[1]) = 3
    /\ images[1][1].CreationDate < images[1][3].CreationDate
    /\ images[1][2].CreationDate = images[1][3].CreationDate
    /\ image_id[1] = images[1][2].ImageId

\* C10: a run goes on past the resolver only with a non-empty answer; on an
\* empty answer it has ended with the resolver's IndexError, and the only call
\* it has issued is describe_images: no version created, promoted or deleted
\* and no refresh started.
C10_NoImageIsFatal ==
    \A p \in Procs :
        /\ pc[p] = "describe_launch_template_versions" => images[p] # <<>>
        /\ Running(p) /\ pc[p] # "get_latest_image" => image_id[p] \in ImageIds
        /\ err[p] = "IndexError"
              => /\ pc[p] = "failed"
                 /\ images[p] = <<>>
                 /\ Mutations(p) = <<>>
                 /\ Len(log[p]) = 1
                 /\ log[p][1].op = "describe_images"

C10_Witness ==
    /\ pc[1] = "failed"
    /\ err[1] = "IndexError"
    /\ images[1] = <<>>
    /\ Len(log[1]) = 1

\* the call of run p that raised, "" when none did
FailedCall(p) ==
    IF log[p] # <<>> /\ ~log[p][Len(log[p])].ok THEN log[p][Len(log[p])].op ELSE ""

\* C11: a provider failure ends the run without compensation.  The step on
\* which a call raises changes nothing at the provider, and nothing changes
\* there while the run stays ended.  When promotion to default raised after the
\* create, the created version is still in the template and is not the
\* default, the default is a version of the listing read before, no delete was
\* issued and no instance refresh was started.
C11_NoCompensationOnFailure ==
    /\ [](\A p \in Procs :
            (pc[p] = "failed" /\ FailedCall(p) = "modify_launch_template")
               => /\ err[p] = "ClientError"
                  /\ Len(OkCalls(p, "create_launch_template_version")) = 1
                  /\ response[p] \in DOMAIN ltVersions
                  /\ ltVersions[response[p]] = image_id[p]
                  /\ ltDefault # response[p]
                  /\ \E i \in 1..Len(template[p]) :
                        /\ template[p][i].VersionNumber = ltDefault
                        /\ template[p][i].DefaultVersion
                  /\ \A i \in 1..Len(template[p]) :
                        template[p][i].VersionNumber \in DOMAIN ltVersions
                  /\ Calls(p, "delete_launch_template_versions") = <<>>
                  /\ Calls(p, "describe_auto_scaling_groups") = <<>>
                  /\ Calls(p, "start_instance_refresh") = <<>>)
    /\ [][\A p \in SeqProcs :
            (pc'[p] = "failed" /\ err'[p] = "ClientError") => provider' = provider]_vars

C11_Witness ==
    /\ pc[1] = "failed"
    /\ FailedCall(1) = "modify_launch_template"
    /\ response[1] \in DOMAIN ltVersions
    /\ ltDefault # response[1]

\* C12: when the request for the group at position k of the listing raises,
\* the run ends with that ClientError: the k-1 requests for the groups before
\* it were issued and stay in place, the failed request is the last call of the
\* run, and no request exists for a later group.  No call follows a call that
\* raised.
C12_FirstRefreshFailureAborts ==
    /\ [](\A p \in Procs :
            /\ \A i \in 1..Len(log[p]) :
                  ~log[p][i].ok
                     => /\ i = Len(log[p])
                        /\ pc[p] = "failed"
                        /\ err[p] = "ClientError"
            /\ (pc[p] = "failed" /\ FailedCall(p) = "start_instance_refresh")
                  => LET r == Calls(p, "start_instance_refresh")
                         k == gi[p]
                     IN /\ k \in 1..Len(scaling_groups[p])
                        /\ Len(r) = k
                        /\ \A i \in 1..(k - 1) :
                              r[i].ok /\ r[i].Name = scaling_groups[p][i])
    /\ [][\A p \in SeqProcs :
            (pc[p] = "failed" /\ pc'[p] = "failed") => log'[p] = log[p]]_vars

C12_Witness ==
    /\ pc[1] = "failed"
    /\ FailedCall(1) = "start_instance_refresh"
    /\ gi[1] = 2
    /\ Len(scaling_groups[1]) = 2
    /\ Len(OkCalls(1, "start_instance_refresh")) = 1

\* an ok call with operation op stands before position j of the log of run p
OkBefore(p, op, j) == \E i \in 1..(j - 1) : log[p][i].op = op /\ log[p][i].ok

\* C13: in the call log of one run the create stands before the promotion,
\* the promotion before every delete, and every call of trigger_refresh after
\* all of them; a promotion follows a create that returned, a delete follows a
\* promotion that returned, and a refresh request is issued only after create
\* and promotion returned and the pruning loop was left (the Rotation Result
\* exists).
C13_MutatingCallOrder ==
    \A p \in Procs :
        LET l == log[p]
            Refresh == {"describe_auto_scaling_groups", "start_instance_refresh"}
        IN /\ \A i, j \in 1..Len(l) :
                 i < j =>
                    /\ l[j].op = "create_launch_template_version"
                          => l[i].op \in {"describe_images",
                                          "describe_launch_template_versions"}
                    /\ l[j].op = "modify_launch_template"
                          => l[i].op \notin
                                {"modify_launch_template",
                                 "delete_launch_template_versions"} \cup Refresh
                    /\ l[j].op = "delete_launch_template_versions"
                          => l[i].op \notin Refresh
           /\ \A j \in 1..Len(l) :
                 /\ l[j].op = "modify_launch_template"
                       => OkBefore(p, "create_launch_template_version", j)
                 /\ l[j].op = "delete_launch_template_versions"
                       => OkBefore(p, "modify_launch_template", j)
                 /\ l[j].op \in Refresh
                       => /\ OkBefore(p, "create_launch_template_version", j)
                          /\ OkBefore(p, "modify_launch_template", j)
                          /\ output[p] # None
                          /\ ~PruneMore(p)

C13_Witness ==
    /\ pc[1] = "done"
    /\ Len(log[1]) = 6
    /\ log[1][3].op = "create_launch_template_version"
    /\ log[1][4].op = "modify_launch_template"
    /\ log[1][6].op = "start_instance_refresh"
    /\ log[1][6].ok

\* C14: the run that immediately follows a run which completed with a Rotation
\* Result, and resolves the same image (the registry is unchanged), issues no
\* mutating call: it creates, promotes and deletes nothing, never enters
\* trigger_refresh and returns no Rotation Result.
C14_RerunIsNoOp ==
    \A p \in Procs :
        (prev[p] # "" /\ image_id[p] = prev[p])
            => /\ Mutations(p) = <<>>
               /\ Calls(p, "describe_auto_scaling_groups") = <<>>
               /\ output[p] = None
               /\ pc[p] \in {"describe_launch_template_versions", "returned",
                             "done", "failed"}

C14_Witness ==
    /\ prev[1] # ""
    /\ image_id[1] = prev[1]
    /\ HasRead(1)
    /\ pc[1] = "done"
    /\ output[1] = None

\* C15: the Rotation Result returned on an update holds the image of the
\* version compared against, the template's id, the number of the version that
\* was the default before the run, and as new version the number of the
\* version this run created and promoted, which differs from the previous one.
C15_RotationResultFields ==
    \A p \in Procs :
        (pc[p] = "returned" /\ output[p] # None)
            => LET o == output[p][1]
                   created == OkCalls(p, "create_launch_template_version")
               IN /\ o.current_image_id = template[p][1].ImageId
                  /\ o.template_id = LtId
                  /\ \E i \in 1..Len(template[p]) :
                        /\ template[p][i].DefaultVersion
                        /\ template[p][i].VersionNumber = o.template_version
                  /\ Len(created) = 1
                  /\ o.new_template_version = created[1].Version
                  /\ o.new_template_version = ltDefault
                  /\ o.new_template_version # o.template_version

\* C16: get_latest_image returns the id of the first image, in listing order,
\* among those carrying the maximum creation timestamp of the answer.
C16_TieGoesToFirstListed ==
    \A p \in Procs :
        pc[p] = "describe_launch_template_versions"
            => LET l == images[p]
                   newest == {i \in 1..Len(l) :
                                \A j \in 1..Len(l) : l[j].CreationDate <= l[i].CreationDate}
               IN /\ newest # {}
                  /\ image_id[p] = l[CHOOSE i \in newest : \A k \in newest : i <= k].ImageId

C16_Witness ==
    /\ pc[1] = "describe_launch_template_versions"
    /\ Len(images[1]) = 3
    /\ images[1][2].CreationDate < images[1][1].CreationDate
    /\ images[1][3].CreationDate = images[1][1].CreationDate
    /\ image_id[1] = images[1][1].ImageId

\* C18: pruning never targets the version created in the current run nor the
\* version that is the default at that moment: every delete call names a
\* version of the listing read before the create.  The created version and
\* the default version exist in the template throughout.
C18_PruneSparesNewAndDefault ==
    /\ ltDefault \in DOMAIN ltVersions
    /\ \A p \in SeqProcs :
          LET listed == {template[p][i].VersionNumber : i \in 1..Len(template[p])}
              d == OkCalls(p, "delete_launch_template_versions")
          IN /\ response[p] # 0 => response[p] \in DOMAIN ltVersions \ listed
             /\ pc[p] = "delete_launch_template_versions"
                   => /\ PruneTarget(p) \in listed
                      /\ PruneTarget(p) # response[p]
                      /\ PruneTarget(p) # ltDefault
             /\ \A i \in 1..Len(d) :
                   /\ d[i].Version \in listed
                   /\ d[i].Version # response[p]
                   /\ d[i].Version # ltDefault

C18_Witness ==
    /\ pc[1] = "prune"
    /\ Len(OkCalls(1, "delete_launch_template_versions")) = 1
    /\ OkCalls(1, "delete_launch_template_versions")[1].Version \notin DOMAIN ltVersions
    /\ ltDefault = response[1]
    /\ ltDefault \in DOMAIN ltVersions

\* C17: nothing between reading the template and creating the version looks
\* at the template again.  A run that read a stale template and got past its
\* create call has created a version of its own, with its image, whatever the
\* other run did in between; with two runs reading the same stale template
\* before either creates, that is two new versions for one image, and each run
\* that comes to its end has requested a refresh of every group it listed.
C17_EachStaleReaderCreates ==
    \A p \in Procs :
        (HasRead(p) /\ template_image(p) # image_id[p]
            /\ pc[p] \notin {"create_launch_template_version", "failed"})
            => LET created == OkCalls(p, "create_launch_template_version")
               IN /\ Len(created) = 1
                  /\ created[1].Version = response[p]
                  /\ created[1].ImageId = image_id[p]
                  /\ \A q \in Procs \ {p} : response[q] # response[p]
                  /\ pc[p] = "done"
                        => /\ output[p] # None
                           /\ Len(OkCalls(p, "start_instance_refresh"))
                                 = Len(scaling_groups[p])

C17_Witness ==
    /\ pc[1] = "done" /\ pc[2] = "done"
    /\ image_id[1] = image_id[2]
    /\ template[1] = template[2]
    /\ output[1] # None /\ output[2] # None
    /\ response[1] # response[2]
    /\ {response[1], response[2]} \subseteq DOMAIN ltVersions
    /\ ltVersions[response[1]] = image_id[1]
    /\ ltVersions[response[2]] = image_id[1]
    /\ Len(OkCalls(1, "start_instance_refresh")) = 2
    /\ Len(OkCalls(2, "start_instance_refresh")) = 2

====
